---- MODULE Spec2Model ----
(***************************************************************************)
(* Gitlab2Github (src/gitlab2github.py): the migration pipeline of main()  *)
(* and of the coroutines it schedules on the asyncio event loop.           *)
(*                                                                         *)
(* One step of the model is one run of a coroutine between two suspension  *)
(* points (an await on a network request or on asyncio.gather).  Network   *)
(* responses are the inputs: each is drawn when it arrives.                *)
(***************************************************************************)
EXTENDS Integers, Sequences, FiniteSets

\* Bounds of the model: the longest list each fetch may return.
MaxLabels == 2
MaxMilestones == 1
MaxIssues == 1
MaxMergeRequests == 2
MaxNotes == 1

\* Python's None and a present value: an optional is a sequence of length <= 1.
None == <<>>
Some(x) == <<x>>

\* The values main() returns at its fetch gates.
LabelsFailCode == -2
MilestonesFailCode == -3
IssuesFailCode == -3
MergeRequestsFailCode == -3

VARIABLES
  pc,                          \* where main() is suspended or has ended
  rv,                          \* what main() returned: None, or Some(code)
  exited,                      \* the interpreter has exited
  exitCode,                    \* the process exit status (meaningful once exited)
  gitlab_tasks,                \* the four fetch tasks, by kind
  github_labels_tasks,         \* the label fan-out
  github_milestones_tasks,     \* the milestone fan-out
  github_issues_tasks,         \* the issue fan-out
  github_pull_requests_tasks,  \* the pull-request fan-out
  nextNumber,                  \* the destination's next issue / pull number
  event,                       \* the response the last step handled, and its log
  frame                        \* the one coroutine call followed statement by
                               \* statement (none during a pipeline run)

vars == <<pc, rv, exited, exitCode, gitlab_tasks, github_labels_tasks,
          github_milestones_tasks, github_issues_tasks,
          github_pull_requests_tasks, nextNumber, event, frame>>

\* The pipeline run follows no call statement by statement.
NoFrame == [fn |-> "none"]

(***************************************************************************)
(* Source side: what the four fetches can return.                          *)
(***************************************************************************)
FetchKinds == {"issues", "labels", "milestones", "merge_requests"}

\* A request either yields a decoded body or raises (transport / decode).
IssueStates == {"opened", "closed"}
MergeRequestStates == {"opened", "closed", "merged", "locked"}
Descriptions == {None, Some("text")}

LabelLists == {[i \in 1..k |-> [name |-> i]] : k \in 0..MaxLabels}
MilestoneLists == {[i \in 1..k |-> [title |-> i]] : k \in 0..MaxMilestones}
NoteLists == {[j \in 1..k |-> [id |-> j]] : k \in 0..MaxNotes}

\* An entry of the primary page, before its notes are attached.
Entry(i, s, d) == [title |-> i, state |-> s, description |-> d, notes |-> None]

PrimaryLists(States, n) ==
  UNION {{[i \in 1..k |-> Entry(i, ss[i], dd[i])] :
            ss \in [1..k -> States], dd \in [1..k -> Descriptions]} : k \in 0..n}

IssueLists == PrimaryLists(IssueStates, MaxIssues)
MergeRequestLists == PrimaryLists(MergeRequestStates, MaxMergeRequests)

PrimaryBodies(kind) ==
  CASE kind = "labels" -> LabelLists
    [] kind = "milestones" -> MilestoneLists
    [] kind = "issues" -> IssueLists
    [] kind = "merge_requests" -> MergeRequestLists

HasNotes(kind) == kind \in {"issues", "merge_requests"}

\* get_gitlab_issue_notes / get_gitlab_merge_requests_notes: the decoded
\* list, or None when the request raised.
NotesResults == {None} \cup {Some(l) : l \in NoteLists}

(***************************************************************************)
(* The fetch tasks.  main() creates the four of them and awaits their      *)
(* gather; each runs to its first request before any response can arrive,  *)
(* so the run starts with the four primary requests in flight.             *)
(***************************************************************************)
FetchTask(st, content, k, result) ==
  [st |-> st, content |-> content, k |-> k, result |-> result]

FetchDone(result) == FetchTask("done", <<>>, 0, result)

\* get_gitlab_*: the primary request returned a decoded list.  Issues and
\* merge requests go on to fetch the notes of each item, one after another.
GetReturns(kind) ==
  /\ pc = "fetch"
  /\ gitlab_tasks[kind].st = "get"
  /\ \E body \in PrimaryBodies(kind) :
       gitlab_tasks' = [gitlab_tasks EXCEPT ![kind] =
         IF HasNotes(kind) /\ Len(body) > 0
           THEN FetchTask("notes", body, 1, None)
           ELSE FetchDone(Some(body))]
  /\ UNCHANGED <<pc, rv, exited, exitCode, github_labels_tasks,
                 github_milestones_tasks, github_issues_tasks,
                 github_pull_requests_tasks, nextNumber, event, frame>>

\* get_gitlab_*: the primary request raised; the fetch returns None.
GetRaises(kind) ==
  /\ pc = "fetch"
  /\ gitlab_tasks[kind].st = "get"
  /\ gitlab_tasks' = [gitlab_tasks EXCEPT ![kind] = FetchDone(None)]
  /\ UNCHANGED <<pc, rv, exited, exitCode, github_labels_tasks,
                 github_milestones_tasks, github_issues_tasks,
                 github_pull_requests_tasks, nextNumber, event, frame>>

\* The notes request of item k came back (a list, or None when it raised);
\* it is attached to the item and the next item's notes are requested.
\* A variant in which a failed notes request fails the whole fetch.
AttachNotesOrFail(t, notes) ==
  LET content == [t.content EXCEPT ![t.k].notes = notes]
  IN  IF notes = None THEN FetchDone(None)
      ELSE IF t.k < Len(t.content)
        THEN FetchTask("notes", content, t.k + 1, None)
        ELSE FetchDone(Some(content))

AttachNotes(t, notes) ==
  LET content == [t.content EXCEPT ![t.k].notes = notes]
  IN  IF t.k < Len(t.content)
        THEN FetchTask("notes", content, t.k + 1, None)
        ELSE FetchDone(Some(content))

NotesReturn(kind) ==
  /\ pc = "fetch"
  /\ gitlab_tasks[kind].st = "notes"
  /\ \E notes \in NotesResults :
       gitlab_tasks' = [gitlab_tasks EXCEPT ![kind] = AttachNotes(@, notes)]
  /\ UNCHANGED <<pc, rv, exited, exitCode, github_labels_tasks,
                 github_milestones_tasks, github_issues_tasks,
                 github_pull_requests_tasks, nextNumber, event, frame>>

\* Variant: main() goes on as soon as the labels fetch has returned.
GitlabGatheredLabels == gitlab_tasks["labels"].st = "done"

\* results = await asyncio.gather(*gitlab_tasks)
GitlabGathered == \A kind \in FetchKinds : gitlab_tasks[kind].st = "done"

gitlab_issues == gitlab_tasks["issues"].result
gitlab_labels == gitlab_tasks["labels"].result
gitlab_milestones == gitlab_tasks["milestones"].result
gitlab_merge_requests == gitlab_tasks["merge_requests"].result

(***************************************************************************)
(* Destination side: what a POST can come back with.                       *)
(***************************************************************************)
\* "ok": a decoded body without an "errors" key (with its "number", for an
\* issue or a pull request); "errors": a body with an "errors" key;
\* "exception": the request or its decoding raised.
Responses == {"ok", "errors", "exception"}
\* "nonumber": a body with neither an "errors" nor a "number" key.
CreateResponses == Responses \cup {"nonumber"}

\* The tasks return nothing: what a call came back with shows only in the log
\* lines its handler writes.  event is the response the last step handled.
Event(phase, i, call, r, log) ==
  [phase |-> phase, task |-> i, call |-> call, resp |-> r, log |-> log]

NoEvent == Event("none", 0, "none", "none", {})

\* Variant: waits for the first task to finish only (FIRST_COMPLETED).
GatheredFirst(tasks) ==
  tasks = <<>> \/ \E i \in DOMAIN tasks : tasks[i].st = "done"

\* asyncio.gather(*tasks): every task of the fan-out has finished.
Gathered(tasks) == \A i \in DOMAIN tasks : tasks[i].st = "done"

\* A task runs only while the event loop runs, i.e. while main() is suspended.
LoopRunning == pc \in {"fetch", "labels", "milestones", "issues", "pulls"}

(***************************************************************************)
(* Labels.                                                                 *)
(***************************************************************************)
LabelTask(entry) == [json |-> [name |-> entry.name], st |-> "new"]

\* Variant: create_task dedented out of the loop, only the last entry is sent.
LabelFanOutLast(labels) ==
  IF labels = <<>> THEN <<>> ELSE <<LabelTask(labels[Len(labels)])>>

\* The loop of main() over gitlab_labels: one task per entry.
LabelFanOut(labels) == [i \in 1..Len(labels) |-> LabelTask(labels[i])]

\* github_create_label up to its POST.
LabelStart(t) == [t EXCEPT !.st = "post"]

\* await asyncio.gather(*tasks) suspends main(); the event loop then runs each
\* task of the fan-out up to its first request, before any response arrives.
StartLabels(tasks) == [i \in DOMAIN tasks |-> LabelStart(tasks[i])]

\* What github_create_label logs for a response.
LabelLog(r) ==
  IF r = "exception" THEN {"failed"}
  ELSE IF r = "errors" THEN {"error"}
  ELSE {"created"}

\* Variant: no gate, a failed labels fetch is taken for an empty list.
ProcessLabelsUngated ==
  /\ pc = "fetch"
  /\ GitlabGathered
  /\ github_labels_tasks' =
       IF gitlab_labels # None
         THEN StartLabels(LabelFanOut(gitlab_labels[1]))
         ELSE <<>>
  /\ pc' = "labels"
  /\ event' = NoEvent
  /\ UNCHANGED <<rv, exited, exitCode, gitlab_tasks, github_milestones_tasks,
                 github_issues_tasks, github_pull_requests_tasks, nextNumber, frame>>

\* main(), from the gather of the fetches to the gather of the label tasks.
ProcessLabels ==
  /\ pc = "fetch"
  /\ GitlabGathered
  /\ IF gitlab_labels # None
       THEN /\ github_labels_tasks' =
                 StartLabels(LabelFanOut(gitlab_labels[1]))
            /\ pc' = "labels"
            /\ rv' = rv
       ELSE /\ github_labels_tasks' = github_labels_tasks
            /\ pc' = "returned"
            /\ rv' = Some(LabelsFailCode)
  /\ event' = NoEvent
  /\ UNCHANGED <<exited, exitCode, gitlab_tasks, github_milestones_tasks,
                 github_issues_tasks, github_pull_requests_tasks, nextNumber, frame>>

\* Variant: a label whose POST did not succeed is posted again.
LabelResponseRetry(i) ==
  /\ LoopRunning
  /\ i \in DOMAIN github_labels_tasks
  /\ github_labels_tasks[i].st = "post"
  /\ \E r \in Responses :
       /\ github_labels_tasks' = [github_labels_tasks EXCEPT
            ![i].st = IF r = "ok" THEN "done" ELSE "post"]
       /\ event' = Event("labels", i, "create", r, LabelLog(r))
  /\ UNCHANGED <<pc, rv, exited, exitCode, gitlab_tasks,
                 github_milestones_tasks, github_issues_tasks,
                 github_pull_requests_tasks, nextNumber, frame>>

\* github_create_label from the response of its POST to its end.
LabelResponse(i) ==
  /\ LoopRunning
  /\ i \in DOMAIN github_labels_tasks
  /\ github_labels_tasks[i].st = "post"
  /\ github_labels_tasks' = [github_labels_tasks EXCEPT ![i].st = "done"]
  /\ \E r \in Responses : event' = Event("labels", i, "create", r, LabelLog(r))
  /\ UNCHANGED <<pc, rv, exited, exitCode, gitlab_tasks,
                 github_milestones_tasks, github_issues_tasks,
                 github_pull_requests_tasks, nextNumber, frame>>

(***************************************************************************)
(* Milestones.                                                             *)
(***************************************************************************)
MilestoneTask(entry) == [json |-> [title |-> entry.title], st |-> "new"]

\* The loop of main() over gitlab_milestones: one task per entry.
MilestoneFanOut(milestones) ==
  [i \in 1..Len(milestones) |-> MilestoneTask(milestones[i])]

\* github_create_milestone up to its POST.
MilestoneStart(t) == [t EXCEPT !.st = "post"]

\* The milestone tasks, each run up to its first request.
StartMilestones(tasks) == [i \in DOMAIN tasks |-> MilestoneStart(tasks[i])]

\* What github_create_milestone logs for a response.
MilestoneLog(r) ==
  IF r = "exception" THEN {"failed"}
  ELSE IF r = "errors" THEN {"error"}
  ELSE {"created"}

\* main(), from the gather of the label tasks to that of the milestone tasks.
ProcessMilestones ==
  /\ pc = "labels"
  /\ Gathered(github_labels_tasks)
  /\ IF gitlab_milestones # None
       THEN /\ github_milestones_tasks' =
                 StartMilestones(MilestoneFanOut(gitlab_milestones[1]))
            /\ pc' = "milestones"
            /\ rv' = rv
       ELSE /\ github_milestones_tasks' = github_milestones_tasks
            /\ pc' = "returned"
            /\ rv' = Some(MilestonesFailCode)
  /\ event' = NoEvent
  /\ UNCHANGED <<exited, exitCode, gitlab_tasks, github_labels_tasks,
                 github_issues_tasks, github_pull_requests_tasks, nextNumber, frame>>

\* github_create_milestone from the response of its POST to its end.
MilestoneResponse(i) ==
  /\ LoopRunning
  /\ i \in DOMAIN github_milestones_tasks
  /\ github_milestones_tasks[i].st = "post"
  /\ github_milestones_tasks' = [github_milestones_tasks EXCEPT ![i].st = "done"]
  /\ \E r \in Responses :
       event' = Event("milestones", i, "create", r, MilestoneLog(r))
  /\ UNCHANGED <<pc, rv, exited, exitCode, gitlab_tasks, github_labels_tasks,
                 github_issues_tasks, github_pull_requests_tasks, nextNumber, frame>>

(***************************************************************************)
(* Issues and pull requests: the task of one parent creates it, then its   *)
(* comments one after another, then (issues only) closes it.               *)
(***************************************************************************)
\* number is the local issue_number / pull_number; calls are the comment and
\* close calls the task has made so far.
ParentTask(json) ==
  [json |-> json, st |-> "new", number |-> None, calls |-> <<>>]

\* for k in list(json.keys()): if json[k] == None: del json[k]
\* (of the modelled fields only "notes" can be None).
RemoveNone(json) ==
  [k \in {f \in DOMAIN json : ~(f = "notes" /\ json[f] = None)} |-> json[k]]

\* github_create_issue / github_create_pull_request up to the create POST.
ParentStart(t) == [t EXCEPT !.st = "post", !.json = RemoveNone(@)]

\* The issue or pull-request tasks, each run up to its first request.
StartParents(tasks) == [i \in DOMAIN tasks |-> ParentStart(tasks[i])]

\* body += entry["description"] raises TypeError on a None description: the
\* index of the first entry at which the loop of main() raises, 0 if none does.
\* The entries the loop skips (the indices in skipped) are not read.
RaisesAt(entries, skipped) ==
  LET bad == {i \in DOMAIN entries \ skipped : entries[i].description = None}
  IN  IF bad = {} THEN 0 ELSE CHOOSE i \in bad : \A j \in bad : i <= j

\* The entries the loop of main() gets through before it ends or raises.
Processed(entries, skipped) ==
  IF RaisesAt(entries, skipped) = 0 THEN entries
  ELSE SubSeq(entries, 1, RaisesAt(entries, skipped) - 1)

IssueTask(entry) ==
  ParentTask([title |-> entry.title, state |-> entry.state,
              notes |-> entry.notes])

\* The loop of main() over gitlab_issues: one task per entry.
IssueFanOut(issues) ==
  LET done == Processed(issues, {})
  IN  [i \in 1..Len(done) |-> IssueTask(done[i])]

\* Variant: the filter is missing.
SubmittableAll(entry) == TRUE

\* Variant: only "opened" merge requests pass the filter.
SubmittableOpened(entry) == entry.state = "opened"

\* if entry["state"] == "closed": continue
Submittable(entry) == entry.state # "closed"

PullTask(entry) ==
  ParentTask([title |-> entry.title, notes |-> entry.notes])

\* The merge requests the loop of main() passes over.
Skipped(merge_requests) ==
  {i \in DOMAIN merge_requests : ~Submittable(merge_requests[i])}

\* The loop of main() over gitlab_merge_requests: one task per entry kept.
PullFanOut(merge_requests) ==
  LET kept == SelectSeq(Processed(merge_requests, Skipped(merge_requests)),
                        Submittable)
  IN  [i \in 1..Len(kept) |-> PullTask(kept[i])]

\* main(), from the gather of the milestone tasks to that of the issue tasks.
\* When the loop raises, main() never reaches the gather: the event loop
\* stops, and the tasks created so far never get to send their request.
ProcessIssues ==
  /\ pc = "milestones"
  /\ Gathered(github_milestones_tasks)
  /\ IF gitlab_issues = None
       THEN /\ github_issues_tasks' = github_issues_tasks
            /\ pc' = "returned"
            /\ rv' = Some(IssuesFailCode)
       ELSE IF RaisesAt(gitlab_issues[1], {}) # 0
       THEN /\ github_issues_tasks' = IssueFanOut(gitlab_issues[1])
            /\ pc' = "raised"
            /\ rv' = rv
       ELSE /\ github_issues_tasks' =
                 StartParents(IssueFanOut(gitlab_issues[1]))
            /\ pc' = "issues"
            /\ rv' = rv
  /\ event' = NoEvent
  /\ UNCHANGED <<exited, exitCode, gitlab_tasks, github_labels_tasks,
                 github_milestones_tasks, github_pull_requests_tasks,
                 nextNumber, frame>>

\* Variant: the merge-requests gate is tested before the issue tasks are
\* gathered.
ProcessPullsEarlyGate ==
  /\ pc = "issues"
  /\ gitlab_merge_requests = None \/ Gathered(github_issues_tasks)
  /\ IF gitlab_merge_requests = None
       THEN /\ github_pull_requests_tasks' = github_pull_requests_tasks
            /\ pc' = "returned"
            /\ rv' = Some(MergeRequestsFailCode)
       ELSE IF RaisesAt(gitlab_merge_requests[1], Skipped(gitlab_merge_requests[1])) # 0
       THEN /\ github_pull_requests_tasks' = PullFanOut(gitlab_merge_requests[1])
            /\ pc' = "raised"
            /\ rv' = rv
       ELSE /\ github_pull_requests_tasks' =
                 StartParents(PullFanOut(gitlab_merge_requests[1]))
            /\ pc' = "pulls"
            /\ rv' = rv
  /\ event' = NoEvent
  /\ UNCHANGED <<exited, exitCode, gitlab_tasks, github_labels_tasks,
                 github_milestones_tasks, github_issues_tasks, nextNumber, frame>>

\* main(), from the gather of the issue tasks to that of the pull-request tasks.
ProcessPulls ==
  /\ pc = "issues"
  /\ Gathered(github_issues_tasks)
  /\ IF gitlab_merge_requests = None
       THEN /\ github_pull_requests_tasks' = github_pull_requests_tasks
            /\ pc' = "returned"
            /\ rv' = Some(MergeRequestsFailCode)
       ELSE IF RaisesAt(gitlab_merge_requests[1], Skipped(gitlab_merge_requests[1])) # 0
       THEN /\ github_pull_requests_tasks' = PullFanOut(gitlab_merge_requests[1])
            /\ pc' = "raised"
            /\ rv' = rv
       ELSE /\ github_pull_requests_tasks' =
                 StartParents(PullFanOut(gitlab_merge_requests[1]))
            /\ pc' = "pulls"
            /\ rv' = rv
  /\ event' = NoEvent
  /\ UNCHANGED <<exited, exitCode, gitlab_tasks, github_labels_tasks,
                 github_milestones_tasks, github_issues_tasks, nextNumber, frame>>

\* Variant: main() falls off its end without the last gather.
FinishNoGather ==
  /\ pc = "pulls"
  /\ pc' = "returned"
  /\ rv' = None
  /\ event' = NoEvent
  /\ UNCHANGED <<exited, exitCode, gitlab_tasks, github_labels_tasks,
                 github_milestones_tasks, github_issues_tasks,
                 github_pull_requests_tasks, nextNumber, frame>>

\* main() falls off its end after the gather of the pull-request tasks.
Finish ==
  /\ pc = "pulls"
  /\ Gathered(github_pull_requests_tasks)
  /\ pc' = "returned"
  /\ rv' = None
  /\ event' = NoEvent
  /\ UNCHANGED <<exited, exitCode, gitlab_tasks, github_labels_tasks,
                 github_milestones_tasks, github_issues_tasks,
                 github_pull_requests_tasks, nextNumber, frame>>

\* loop.run_until_complete(main()): the value main() returned is dropped and
\* the interpreter exits with 0; an exception main() raised exits with 1.
ExitStatus(at, returned) == IF at = "raised" THEN 1 ELSE 0

Exit ==
  /\ pc \in {"returned", "raised"}
  /\ ~exited
  /\ exited' = TRUE
  /\ exitCode' = ExitStatus(pc, rv)
  /\ UNCHANGED <<pc, rv, gitlab_tasks, github_labels_tasks,
                 github_milestones_tasks, github_issues_tasks,
                 github_pull_requests_tasks, nextNumber, event, frame>>

\* A follow-up call of a parent task: a comment for note j, or the close.
Call(op, number, note) == [op |-> op, number |-> number, note |-> note]

\* The comment and close calls a parent's task goes through once created:
\* the next note's comment, then the close if asked for, then the end.
FollowUp(t, closes) ==
  LET sent == Len(t.calls)
      notes == t.json["notes"][1]
  IN  IF sent < Len(notes)
        THEN [t EXCEPT !.st = "comment",
                       !.calls = Append(@, Call("comment", t.number[1], sent + 1))]
      ELSE IF closes
        THEN [t EXCEPT !.st = "close",
                       !.calls = Append(@, Call("close", t.number[1], 0))]
      ELSE [t EXCEPT !.st = "done"]

\* Variant: the follow-up calls are made after an "errors" response too.
AfterCreateAnyway(t, r, n, closes) ==
  IF r \in {"ok", "errors"} /\ "notes" \in DOMAIN t.json
    THEN FollowUp([t EXCEPT !.number = Some(n)], closes)
  ELSE IF r = "ok"
    THEN [t EXCEPT !.st = "done", !.number = Some(n)]
  ELSE [t EXCEPT !.st = "done"]

\* github_create_issue / github_create_pull_request from the response of the
\* create POST on: n is the number the destination assigns on success.
AfterCreate(t, r, n, closes) ==
  IF r = "ok" /\ "notes" \in DOMAIN t.json
    THEN FollowUp([t EXCEPT !.number = Some(n)], closes)
  ELSE IF r = "ok"                        \* json["notes"] raises KeyError
    THEN [t EXCEPT !.st = "done", !.number = Some(n)]
  ELSE [t EXCEPT !.st = "done"]

\* What github_create_issue / github_create_pull_request log after the create.
CreateLog(t, r) ==
  CASE r = "exception" -> {"failed"}
    [] r = "errors" -> {"error"}
    [] r = "nonumber" -> {"created", "failed"}  \* content["number"]: KeyError
    [] r = "ok" -> IF "notes" \in DOMAIN t.json
                     THEN {"created"} ELSE {"created", "failed"}

\* What github_create_issue_comment / github_close_issue log for a response.
CallLog(r) ==
  IF r = "exception" THEN {"failed"}
  ELSE IF r = "errors" THEN {"error"}
  ELSE {"done"}

\* if json["state"] == "closed": await github_close_issue(...)
IssueCloses(t) == t.json["state"] = "closed"

\* github_create_issue from the response of its POST to its next await.
IssueResponse(i) ==
  /\ LoopRunning
  /\ i \in DOMAIN github_issues_tasks
  /\ github_issues_tasks[i].st = "post"
  /\ \E r \in CreateResponses :
       /\ github_issues_tasks' = [github_issues_tasks EXCEPT
            ![i] = AfterCreate(@, r, nextNumber, IssueCloses(@))]
       /\ nextNumber' = IF r = "ok" THEN nextNumber + 1 ELSE nextNumber
       /\ event' = Event("issues", i, "create", r,
                         CreateLog(github_issues_tasks[i], r))
  /\ UNCHANGED <<pc, rv, exited, exitCode, gitlab_tasks, github_labels_tasks,
                 github_milestones_tasks, github_pull_requests_tasks, frame>>

\* github_create_issue_comment returned (it catches whatever its POST did).
IssueCommentResponse(i) ==
  /\ LoopRunning
  /\ i \in DOMAIN github_issues_tasks
  /\ github_issues_tasks[i].st = "comment"
  /\ github_issues_tasks' = [github_issues_tasks EXCEPT
       ![i] = FollowUp(@, IssueCloses(@))]
  /\ \E r \in Responses : event' = Event("issues", i, "comment", r, CallLog(r))
  /\ UNCHANGED <<pc, rv, exited, exitCode, gitlab_tasks, github_labels_tasks,
                 github_milestones_tasks, github_pull_requests_tasks,
                 nextNumber, frame>>

\* github_close_issue returned (it catches whatever its POST did).
IssueCloseResponse(i) ==
  /\ LoopRunning
  /\ i \in DOMAIN github_issues_tasks
  /\ github_issues_tasks[i].st = "close"
  /\ github_issues_tasks' = [github_issues_tasks EXCEPT ![i].st = "done"]
  /\ \E r \in Responses : event' = Event("issues", i, "close", r, CallLog(r))
  /\ UNCHANGED <<pc, rv, exited, exitCode, gitlab_tasks, github_labels_tasks,
                 github_milestones_tasks, github_pull_requests_tasks,
                 nextNumber, frame>>

\* github_create_pull_request from the response of its POST to its next await.
PullResponse(i) ==
  /\ LoopRunning
  /\ i \in DOMAIN github_pull_requests_tasks
  /\ github_pull_requests_tasks[i].st = "post"
  /\ \E r \in CreateResponses :
       /\ github_pull_requests_tasks' = [github_pull_requests_tasks EXCEPT
            ![i] = AfterCreate(@, r, nextNumber, FALSE)]
       /\ nextNumber' = IF r = "ok" THEN nextNumber + 1 ELSE nextNumber
       /\ event' = Event("pulls", i, "create", r,
                         CreateLog(github_pull_requests_tasks[i], r))
  /\ UNCHANGED <<pc, rv, exited, exitCode, gitlab_tasks, github_labels_tasks,
                 github_milestones_tasks, github_issues_tasks, frame>>

\* github_create_issue_comment returned to a pull request's task.
PullCommentResponse(i) ==
  /\ LoopRunning
  /\ i \in DOMAIN github_pull_requests_tasks
  /\ github_pull_requests_tasks[i].st = "comment"
  /\ github_pull_requests_tasks' = [github_pull_requests_tasks EXCEPT
       ![i] = FollowUp(@, FALSE)]
  /\ \E r \in Responses : event' = Event("pulls", i, "comment", r, CallLog(r))
  /\ UNCHANGED <<pc, rv, exited, exitCode, gitlab_tasks, github_labels_tasks,
                 github_milestones_tasks, github_issues_tasks, nextNumber, frame>>

(***************************************************************************)
(* The run.                                                                *)
(***************************************************************************)
Init ==
  /\ pc = "fetch"
  /\ rv = None
  /\ exited = FALSE
  /\ exitCode = 0
  /\ gitlab_tasks = [kind \in FetchKinds |-> FetchTask("get", <<>>, 0, None)]
  /\ github_labels_tasks = <<>>
  /\ github_milestones_tasks = <<>>
  /\ github_issues_tasks = <<>>
  /\ github_pull_requests_tasks = <<>>
  /\ nextNumber = 1
  /\ event = NoEvent
  /\ frame = NoFrame

Next ==
  \/ \E kind \in FetchKinds : GetReturns(kind)
  \/ \E kind \in FetchKinds : GetRaises(kind)
  \/ \E kind \in FetchKinds : NotesReturn(kind)
  \/ ProcessLabels
  \/ \E i \in 1..MaxLabels : LabelResponse(i)
  \/ ProcessMilestones
  \/ \E i \in 1..MaxMilestones : MilestoneResponse(i)
  \/ ProcessIssues
  \/ \E i \in 1..MaxIssues : IssueResponse(i)
  \/ \E i \in 1..MaxIssues : IssueCommentResponse(i)
  \/ \E i \in 1..MaxIssues : IssueCloseResponse(i)
  \/ ProcessPulls
  \/ \E i \in 1..MaxMergeRequests : PullResponse(i)
  \/ \E i \in 1..MaxMergeRequests : PullCommentResponse(i)
  \/ Finish
  \/ Exit

Spec == Init /\ [][Next]_vars

(***************************************************************************)
(* Vocabulary of the properties.                                           *)
(***************************************************************************)
\* The tasks of a fan-out whose create POST has been issued.
Issued(tasks) == {i \in DOMAIN tasks : tasks[i].st # "new"}

\* Every task of a fan-out has run to its end, sub-calls included.
Completed(tasks) == \A i \in DOMAIN tasks : tasks[i].st = "done"

\* No write call of any kind has been issued to the destination.
NoWrites ==
  /\ Issued(github_labels_tasks) = {}
  /\ Issued(github_milestones_tasks) = {}
  /\ Issued(github_issues_tasks) = {}
  /\ Issued(github_pull_requests_tasks) = {}

\* The parent tasks (issues and pull requests), by phase and index.
Parents ==
  {<<"issues", i>> : i \in DOMAIN github_issues_tasks}
    \cup {<<"pulls", i>> : i \in DOMAIN github_pull_requests_tasks}

ParentOf(p) ==
  IF p[1] = "issues" THEN github_issues_tasks[p[2]]
  ELSE github_pull_requests_tasks[p[2]]

\* The gate at which main() returned a failure code.
FailedGate ==
  IF gitlab_labels = None THEN "labels"
  ELSE IF gitlab_milestones = None THEN "milestones"
  ELSE IF gitlab_issues = None THEN "issues"
  ELSE "merge_requests"

\* main() got through its loop over the merge requests.
PullsSubmitted == pc = "pulls" \/ (pc = "returned" /\ rv = None)

\* The merge request a pull-request task was built from.
SourceOf(t) == gitlab_merge_requests[1][t.json["title"]]

(***************************************************************************)
(* C1.  Phase barrier: no create call of a later phase (labels, then       *)
(* milestones, then issues, then pull requests) is issued before every     *)
(* task of the earlier phases has completed, an issue's task including its *)
(* comment and close calls.                                                *)
(***************************************************************************)
PhaseBarrier ==
  /\ Issued(github_milestones_tasks) # {} => Completed(github_labels_tasks)
  /\ Issued(github_issues_tasks) # {} =>
       Completed(github_labels_tasks) /\ Completed(github_milestones_tasks)
  /\ Issued(github_pull_requests_tasks) # {} =>
       /\ Completed(github_labels_tasks)
       /\ Completed(github_milestones_tasks)
       /\ Completed(github_issues_tasks)

\* A pull request's comment is in flight after two labels, a milestone and an
\* issue with follow-up calls went through.
PhaseBarrierWitness ==
  /\ pc = "pulls"
  /\ Len(github_labels_tasks) = 2
  /\ Len(github_milestones_tasks) = 1
  /\ \E i \in DOMAIN github_issues_tasks : Len(github_issues_tasks[i].calls) = 2
  /\ \E i \in DOMAIN github_pull_requests_tasks :
       github_pull_requests_tasks[i].st = "comment"

(***************************************************************************)
(* C2.  Label gate: when the labels fetch returned None, whatever the      *)
(* other fetches returned, main() goes nowhere but to its return with the  *)
(* labels failure code, which is not zero, and no write call is issued.    *)
(***************************************************************************)
LabelGate ==
  (GitlabGathered /\ gitlab_labels = None) =>
    /\ NoWrites
    /\ pc \in {"fetch", "returned"}
    /\ pc = "returned" => (rv = Some(LabelsFailCode) /\ rv[1] # 0)

\* The labels fetch failed while the three others returned non-empty lists.
LabelGateWitness ==
  /\ pc = "returned"
  /\ gitlab_labels = None
  /\ gitlab_milestones # None /\ gitlab_milestones # Some(<<>>)
  /\ gitlab_issues # None /\ gitlab_issues # Some(<<>>)
  /\ gitlab_merge_requests # None /\ gitlab_merge_requests # Some(<<>>)

(***************************************************************************)
(* C3.  Milestone gate, as claimed: when the milestones fetch returned     *)
(* None, no write call of any kind is issued to the destination.           *)
(***************************************************************************)
MilestoneGateNoWrites ==
  (GitlabGathered /\ gitlab_milestones = None) => NoWrites

(***************************************************************************)
(* C4.  Failure codes, as claimed: the code of a failed gate is not zero   *)
(* and differs from the code of every other kind of gate; issues and merge *)
(* requests share one kind.                                                *)
(***************************************************************************)
FailureCodesDistinct ==
  (pc = "returned" /\ rv # None) =>
    /\ rv[1] # 0
    /\ FailedGate # "labels" => rv[1] # LabelsFailCode
    /\ FailedGate # "milestones" => rv[1] # MilestonesFailCode
    /\ FailedGate \notin {"issues", "merge_requests"} =>
         rv[1] \notin {IssuesFailCode, MergeRequestsFailCode}

(***************************************************************************)
(* C5.  Exit code, as claimed: the process exit code is 0 exactly when the *)
(* run reached Done, and negative when it ended at a failed gate.          *)
(***************************************************************************)
ExitCodeReflectsOutcome ==
  exited =>
    /\ exitCode = 0 <=> (pc = "returned" /\ rv = None)
    /\ (pc = "returned" /\ rv # None) => exitCode < 0

(***************************************************************************)
(* C6.  Fan-out independence: every fetched label gets its create call,    *)
(* a response with errors or an exception on one label leaves main() at    *)
(* the gather and the other labels in flight or finished, and a label      *)
(* whose response carries no errors is logged as created.                  *)
(***************************************************************************)
LabelFanOutIndependent ==
  /\ (pc # "fetch" /\ gitlab_labels # None) =>
       /\ Len(github_labels_tasks) = Len(gitlab_labels[1])
       /\ \A i \in DOMAIN github_labels_tasks :
            /\ github_labels_tasks[i].json.name = gitlab_labels[1][i].name
            /\ github_labels_tasks[i].st \in {"post", "done"}
  /\ event.phase = "labels" =>
       /\ pc = "labels"
       /\ github_labels_tasks[event.task].st = "done"
       /\ event.resp = "ok" => event.log = {"created"}
       /\ event.resp # "ok" => "created" \notin event.log
  /\ pc \notin {"fetch", "labels"} => Completed(github_labels_tasks)

\* The first of two labels raised while the second is still in flight.
LabelFanOutWitness ==
  /\ Len(github_labels_tasks) = 2
  /\ event.phase = "labels" /\ event.task = 1 /\ event.resp = "exception"
  /\ github_labels_tasks[2].st = "post"

\* The second of two labels is created after the first one finished.
LabelCreatedWitness ==
  /\ Len(github_labels_tasks) = 2
  /\ event.phase = "labels" /\ event.task = 2 /\ event.log = {"created"}
  /\ github_labels_tasks[1].st = "done"

(***************************************************************************)
(* C7.  Close, as claimed: an issue that was created and whose source      *)
(* state is "closed" gets the close call on its new number once its task   *)
(* is over, whatever its notes are (a list, an empty list, None).          *)
(***************************************************************************)
ClosedIssueIsClosed ==
  \A i \in DOMAIN github_issues_tasks :
    LET t == github_issues_tasks[i]
    IN  (t.st = "done" /\ t.number # None /\ t.json["state"] = "closed") =>
          \E c \in DOMAIN t.calls :
            t.calls[c] = Call("close", t.number[1], 0)

(***************************************************************************)
(* C8.  No comment or close call is made for a parent whose create came    *)
(* back with errors or raised; every such call targets the number the      *)
(* create of its own parent returned, which is no other parent's number.   *)
(***************************************************************************)
FollowUpOnlyOwnParent ==
  /\ \A p \in Parents :
       LET t == ParentOf(p)
       IN  /\ t.calls # <<>> => t.number # None
           /\ \A c \in DOMAIN t.calls :
                /\ t.calls[c].number = t.number[1]
                /\ \A q \in Parents \ {p} :
                     ParentOf(q).number # Some(t.calls[c].number)
  /\ (event.call = "create" /\ event.phase \in {"issues", "pulls"}
        /\ event.resp \in {"errors", "exception"}) =>
       LET t == ParentOf(<<event.phase, event.task>>)
       IN  t.st = "done" /\ t.number = None /\ t.calls = <<>>
  /\ \A p \in Parents :
       (ParentOf(p).st = "done" /\ ParentOf(p).number = None) =>
         ParentOf(p).calls = <<>>

\* Two pull requests were created and commented, an issue before them too.
FollowUpWitness ==
  /\ Len(github_pull_requests_tasks) = 2
  /\ \A i \in DOMAIN github_pull_requests_tasks :
       github_pull_requests_tasks[i].calls # <<>>
  /\ \E i \in DOMAIN github_issues_tasks : github_issues_tasks[i].calls # <<>>

OnlyOpenedSubmitted ==
  \A i \in DOMAIN github_pull_requests_tasks :
    SourceOf(github_pull_requests_tasks[i]).state = "opened"

(***************************************************************************)
(* C10, amended.  A pull request is submitted only for a merge request     *)
(* whose source state is not "closed"; merged and locked merge requests    *)
(* are submitted like opened ones.                                         *)
(***************************************************************************)
AllButClosedSubmitted ==
  /\ \A i \in DOMAIN github_pull_requests_tasks :
       SourceOf(github_pull_requests_tasks[i]).state
         \in {"opened", "merged", "locked"}
  /\ PullsSubmitted =>
       \A k \in DOMAIN gitlab_merge_requests[1] :
         gitlab_merge_requests[1][k].state \in {"opened", "merged", "locked"} =>
           \E i \in Issued(github_pull_requests_tasks) :
             github_pull_requests_tasks[i].json["title"] = k

\* A merged and a locked merge request have both been submitted.
AllButClosedWitness ==
  /\ pc = "pulls"
  /\ \E i \in Issued(github_pull_requests_tasks) :
       SourceOf(github_pull_requests_tasks[i]).state = "merged"
  /\ \E i \in Issued(github_pull_requests_tasks) :
       SourceOf(github_pull_requests_tasks[i]).state = "locked"

(***************************************************************************)
(* The text of the bodies.  A Python str is the sequence of its            *)
(* characters; the calls that build and rewrite a body are followed one    *)
(* statement at a time in the frame, from inputs drawn at the start.       *)
(***************************************************************************)
\* Bounds of the text: the longest source username (and so the longest key of
\* the identity map) and the longest original text.
MaxName == 1
MaxText == 3

\* All the strings over a set of characters, of the given lengths.
Strings(chars, lo, hi) == UNION {[1..n -> chars] : n \in lo..hi}

\* str.lower(), and the folding re.IGNORECASE compares under.
Lower(c) ==
  CASE c = "A" -> "a"
    [] c = "B" -> "b"
    [] c = "M" -> "m"
    [] OTHER -> c

LowerStr(s) == [i \in DOMAIN s |-> Lower(s[i])]

\* The characters of the model that the class \w does not match.
NonWord == {"@", " ", ".", "-", "\n"}
IsWord(c) == c \notin NonWord

\* Usernames on the source side, the keys of the identity map (configparser
\* lowercases the option names it reads), and usernames on the destination
\* side, which may hold a hyphen after their first character.
SourceNames == Strings({"a", "b", "A"}, 1, MaxName)
Keys == Strings({"a", "b"}, 1, MaxName)
DestNames ==
  {n \in Strings({"a", "b", "-"}, 1, MaxName + 1) : n[1] # "-"}

\* users_mapping = dict(cp["users-mapping"])
UsersMappings == UNION {[ks -> DestNames] : ks \in SUBSET Keys}

\* The original texts: descriptions and note bodies, with their mentions.
Texts == Strings({"@", "a", "b", "A"}, 0, MaxText)
Timestamps == {<<"1">>}
BodyKinds == {"issue", "pull request", "note"}

\* key = username.lower(); if key in users_mapping.keys(): username = ...
Resolve(users_mapping, username) ==
  IF LowerStr(username) \in DOMAIN users_mapping
    THEN users_mapping[LowerStr(username)]
    ELSE username

KindWord(kind) ==
  CASE kind = "issue" -> <<"i", "s", "s", "u", "e">>
    [] kind = "pull request" ->
         <<"p", "u", "l", "l", " ", "r", "e", "q", "u", "e", "s", "t">>
    [] kind = "note" -> <<"n", "o", "t", "e">>

\* "Migrated <kind> created by @{} at {}.\n".format(username, created_at)
Banner(kind, username, created_at) ==
  <<"M", "i", "g", "r", "a", "t", "e", "d", " ">> \o KindWord(kind)
    \o <<" ", "c", "r", "e", "a", "t", "e", "d", " ", "b", "y", " ", "@">>
    \o username \o <<" ", "a", "t", " ">> \o created_at \o <<".", "\n">>

\* 20 * "-" + "\n\n"
Separator == [i \in 1..20 |-> "-"] \o <<"\n", "\n">>

\* body = banner; body += separator; body += the original text
Body(kind, username, created_at, text) ==
  Banner(kind, username, created_at) \o Separator \o text

\* The end of the longest run of \w characters that starts at position i.
RECURSIVE WordEnd(_, _)
WordEnd(s, i) ==
  IF i <= Len(s) /\ IsWord(s[i]) THEN WordEnd(s, i + 1) ELSE i - 1

\* re.findall("@\w+", s), each match without its "@" (person[1::]): the
\* matches from position i on, left to right.
RECURSIVE Citations(_, _)
Citations(s, i) ==
  IF i > Len(s) THEN <<>>
  ELSE IF s[i] = "@" /\ WordEnd(s, i + 1) > i
    THEN <<SubSeq(s, i + 1, WordEnd(s, i + 1))>> \o
           Citations(s, WordEnd(s, i + 1) + 1)
    ELSE Citations(s, i + 1)

\* The pattern key matches s at position i, case folded.
MatchesAt(key, s, i) ==
  /\ i + Len(key) - 1 <= Len(s)
  /\ \A j \in 1..Len(key) : Lower(s[i + j - 1]) = Lower(key[j])

\* re.sub(key, new_username, s, flags=re.IGNORECASE): every occurrence of key
\* from position i on, left to right and not overlapping, becomes
\* new_username.
RECURSIVE Sub(_, _, _, _)
Sub(key, new_username, s, i) ==
  IF i > Len(s) THEN <<>>
  ELSE IF MatchesAt(key, s, i)
    THEN new_username \o Sub(key, new_username, s, i + Len(key))
    ELSE <<s[i]>> \o Sub(key, new_username, s, i + 1)

\* for person in citations: ...: the loop from the k-th citation on.  The
\* citations were found once, in the body as it was built; each substitution
\* works on the body the earlier ones left.
RECURSIVE RewriteCitations(_, _, _, _)
RewriteCitations(users_mapping, citations, body, k) ==
  IF k > Len(citations) THEN body
  ELSE LET key == LowerStr(citations[k])
       IN  RewriteCitations(users_mapping, citations,
             IF key \in DOMAIN users_mapping
               THEN Sub(key, users_mapping[key], body, 1)
               ELSE body,
             k + 1)

\* The call followed: its inputs, the body it holds, and what it posted.
BodyFrame(users_mapping, kind, username, created_at, text) ==
  [fn |-> "body", at |-> "entry", users_mapping |-> users_mapping,
   kind |-> kind, username |-> username, created_at |-> created_at,
   text |-> text, body |-> <<>>, posted |-> None]

PipelineIdle ==
  /\ pc = "fetch"
  /\ rv = None
  /\ exited = FALSE
  /\ exitCode = 0
  /\ gitlab_tasks = [kind \in FetchKinds |-> FetchTask("get", <<>>, 0, None)]
  /\ github_labels_tasks = <<>>
  /\ github_milestones_tasks = <<>>
  /\ github_issues_tasks = <<>>
  /\ github_pull_requests_tasks = <<>>
  /\ nextNumber = 1
  /\ event = NoEvent

PipelineUnchanged ==
  UNCHANGED <<pc, rv, exited, exitCode, gitlab_tasks, github_labels_tasks,
              github_milestones_tasks, github_issues_tasks,
              github_pull_requests_tasks, nextNumber, event>>

BodyInit ==
  /\ PipelineIdle
  /\ frame \in {BodyFrame(m, kind, username, created_at, text) :
                  m \in UsersMappings, kind \in BodyKinds,
                  username \in SourceNames, created_at \in Timestamps,
                  text \in Texts}

\* main() for an issue or a merge request, github_create_issue and
\* github_create_pull_request for a note: the body is built under the
\* resolved name of its author.
BuildBody ==
  /\ frame.fn = "body" /\ frame.at = "entry"
  /\ frame' = [frame EXCEPT
       !.at = "built",
       !.body = Body(frame.kind, Resolve(frame.users_mapping, frame.username),
                     frame.created_at, frame.text)]
  /\ PipelineUnchanged

\* github_create_issue / github_create_pull_request: the body of an issue or
\* of a pull request is posted as main() built it.
PostBody ==
  /\ frame.fn = "body" /\ frame.at = "built"
  /\ frame.kind # "note"
  /\ frame' = [frame EXCEPT !.at = "posted", !.posted = Some(frame.body)]
  /\ PipelineUnchanged

\* github_create_issue_comment: the citations of the body are found and the
\* body is rewritten for each of them that has a mapping.
Rewrite ==
  /\ frame.fn = "body" /\ frame.at = "built"
  /\ frame.kind = "note"
  /\ frame' = [frame EXCEPT
       !.at = "rewritten",
       !.body = RewriteCitations(frame.users_mapping,
                                 Citations(frame.body, 1), frame.body, 1)]
  /\ PipelineUnchanged

\* github_create_issue_comment: the rewritten body is posted.
PostComment ==
  /\ frame.fn = "body" /\ frame.at = "rewritten"
  /\ frame' = [frame EXCEPT !.at = "posted", !.posted = Some(frame.body)]
  /\ PipelineUnchanged

BodyNext == BuildBody \/ PostBody \/ Rewrite \/ PostComment

BodySpec == BodyInit /\ [][BodyNext]_vars

(***************************************************************************)
(* C11.  Provenance banner: every issue, pull-request and comment body     *)
(* transmitted begins with the banner that names the resolved author and   *)
(* the source timestamp, then the separator of twenty dashes; the bodies   *)
(* of issues and pull requests go on with the original text.  For a        *)
(* comment this is said of the body posted, after the rewrite of its       *)
(* mentions, under every identity map.                                     *)
(***************************************************************************)
ProvenanceBanner ==
  (frame.fn = "body" /\ frame.posted # None) =>
    LET head == Banner(frame.kind,
                       Resolve(frame.users_mapping, frame.username),
                       frame.created_at) \o Separator
        sent == frame.posted[1]
    IN  /\ Len(sent) >= Len(head)
        /\ SubSeq(sent, 1, Len(head)) = head
        /\ frame.kind # "note" => sent = head \o frame.text

(***************************************************************************)
(* C12.  Mention rewrite: in the comment body posted, every @username      *)
(* token whose username has a mapping stands replaced by the mapped name,  *)
(* each token mapped once, and nothing but whole @username tokens differs  *)
(* from the body the comment call was handed.                              *)
(***************************************************************************)
\* The rewrite the claim describes, from position i on: a whole token at a
\* time, each token once, everything else copied.
RECURSIVE TokenRewrite(_, _, _)
TokenRewrite(users_mapping, s, i) ==
  IF i > Len(s) THEN <<>>
  ELSE IF s[i] = "@" /\ WordEnd(s, i + 1) > i
    THEN LET name == SubSeq(s, i + 1, WordEnd(s, i + 1))
         IN  <<"@">> \o Resolve(users_mapping, name) \o
               TokenRewrite(users_mapping, s, WordEnd(s, i + 1) + 1)
    ELSE <<s[i]>> \o TokenRewrite(users_mapping, s, i + 1)

MentionsRewrittenOnce ==
  (frame.fn = "body" /\ frame.kind = "note" /\ frame.posted # None) =>
    frame.posted[1] =
      TokenRewrite(frame.users_mapping,
                   Body(frame.kind,
                        Resolve(frame.users_mapping, frame.username),
                        frame.created_at, frame.text),
                   1)

(***************************************************************************)
(* C13.  The payload of the issue-creation call does not hold the notes:   *)
(* no issue task that has issued its create POST sent a "notes" field.     *)
(***************************************************************************)
\* session.post(create_issue_url, ..., json=json): the payload is the task's
\* json as it stands after the None fields were removed.
IssuePayload(t) == t.json

NotesNotTransmitted ==
  \A i \in Issued(github_issues_tasks) :
    "notes" \notin DOMAIN IssuePayload(github_issues_tasks[i])

(***************************************************************************)
(* C16.  Destination-side failures are never fatal: once the four fetches  *)
(* have all returned a list, main() is not ended by an uncaught exception  *)
(* and returns nothing but None, and the process exits after that return.  *)
(***************************************************************************)
AllFetched ==
  /\ GitlabGathered
  /\ gitlab_labels # None
  /\ gitlab_milestones # None
  /\ gitlab_issues # None
  /\ gitlab_merge_requests # None

NeverFatalOnceFetched ==
  AllFetched =>
    /\ pc # "raised"
    /\ pc = "returned" => rv = None

(***************************************************************************)
(* C14.  Secondary-fetch isolation: whatever a notes request returns, a    *)
(* failure included, the fetch goes on to the notes of the next item or,   *)
(* after the last item, returns the list of every item and not None; the   *)
(* step touches the notes of that one item only.                           *)
(***************************************************************************)
NotesStepIsolated(t, u) ==
  /\ t.k < Len(t.content) =>
       /\ u.st = "notes" /\ u.k = t.k + 1
       /\ Len(u.content) = Len(t.content)
       /\ \A j \in DOMAIN t.content : j # t.k => u.content[j] = t.content[j]
       /\ u.content[t.k].title = t.content[t.k].title
  /\ t.k = Len(t.content) =>
       /\ u.st = "done" /\ u.result # None
       /\ Len(u.result[1]) = Len(t.content)
       /\ \A j \in DOMAIN t.content : j # t.k => u.result[1][j] = t.content[j]
       /\ u.result[1][t.k].title = t.content[t.k].title

NotesFailureIsolated ==
  [][\A kind \in {"issues", "merge_requests"} :
       (gitlab_tasks[kind].st = "notes" /\ gitlab_tasks'[kind] # gitlab_tasks[kind])
         => NotesStepIsolated(gitlab_tasks[kind], gitlab_tasks'[kind])]_vars

\* The merge-requests fetch returned its two items: the notes request of the
\* first failed, that of the second returned a note.
NotesFailureWitness ==
  /\ gitlab_tasks["merge_requests"].st = "done"
  /\ gitlab_merge_requests # None
  /\ Len(gitlab_merge_requests[1]) = 2
  /\ gitlab_merge_requests[1][1].notes = None
  /\ gitlab_merge_requests[1][2].notes = Some(<<[id |-> 1]>>)

(***************************************************************************)
(* C15.  No retry, at most once: a fan-out holds at most one task per      *)
(* source entry, a parent's task makes at most one comment call per note   *)
(* and at most one close call (none for a pull request), and the task      *)
(* whose call just came back, failed or not, has not issued it again.      *)
(***************************************************************************)
\* The tasks of a fan-out are built from different entries, at most n of them.
OnePerEntry(tasks, field, n) ==
  /\ Len(tasks) <= n
  /\ \A i, j \in DOMAIN tasks :
       i # j => tasks[i].json[field] # tasks[j].json[field]

Entries(result) == IF result = None THEN 0 ELSE Len(result[1])

\* The follow-up calls of a parent's task are all different: one comment per
\* note at most, one close at most.
CallsOnce(t) ==
  /\ \A a, b \in DOMAIN t.calls : a # b => t.calls[a] # t.calls[b]
  /\ \A a \in DOMAIN t.calls :
       t.calls[a].op = "comment" =>
         /\ "notes" \in DOMAIN t.json
         /\ t.calls[a].note \in DOMAIN t.json["notes"][1]

\* The task whose response was handled last is not waiting on that call again.
NotReissued ==
  /\ event.phase = "labels" => github_labels_tasks[event.task].st = "done"
  /\ event.phase = "milestones" =>
       github_milestones_tasks[event.task].st = "done"
  /\ \A p \in Parents :
       (event.phase = p[1] /\ event.task = p[2]) =>
         /\ (event.call = "create" /\ event.resp # "ok") =>
              ParentOf(p).st = "done"
         /\ event.call = "create" => ParentOf(p).st # "post"
         /\ event.call = "close" => ParentOf(p).st = "done"
         /\ event.call = "comment" =>
              \/ ParentOf(p).st \in {"close", "done"}
              \/ /\ ParentOf(p).st = "comment"
                 /\ ParentOf(p).calls[Len(ParentOf(p).calls)].note > 1

AtMostOnce ==
  /\ OnePerEntry(github_labels_tasks, "name", Entries(gitlab_labels))
  /\ OnePerEntry(github_milestones_tasks, "title", Entries(gitlab_milestones))
  /\ OnePerEntry(github_issues_tasks, "title", Entries(gitlab_issues))
  /\ OnePerEntry(github_pull_requests_tasks, "title",
                 Entries(gitlab_merge_requests))
  /\ \A p \in Parents : CallsOnce(ParentOf(p))
  /\ \A i \in DOMAIN github_pull_requests_tasks :
       \A a \in DOMAIN github_pull_requests_tasks[i].calls :
         github_pull_requests_tasks[i].calls[a].op # "close"
  /\ NotReissued

\* The comment call of an issue's note raised; the task went on to the close
\* call, and both calls were made once.
AtMostOnceWitness ==
  /\ event.phase = "issues" /\ event.call = "comment"
  /\ event.resp = "exception"
  /\ github_issues_tasks[event.task].st = "close"
  /\ Len(github_issues_tasks[event.task].calls) = 2

(***************************************************************************)
(* C19.  Fetch join: the four fetches are all started when the first of    *)
(* them is awaited, and as long as one of them, the notes requests of the  *)
(* issues and merge requests included, has not completed, main() waits at  *)
(* the gather and no write call has been issued.                           *)
(***************************************************************************)
FetchJoin ==
  /\ \A kind \in FetchKinds : gitlab_tasks[kind].st \in {"get", "notes", "done"}
  /\ (\E kind \in FetchKinds : gitlab_tasks[kind].st # "done") =>
       (NoWrites /\ pc = "fetch")

\* Three fetches have returned non-empty lists and the last notes request of
\* the merge requests is still in flight.
FetchJoinWitness ==
  /\ gitlab_tasks["merge_requests"].st = "notes"
  /\ gitlab_tasks["merge_requests"].k = 2
  /\ gitlab_labels # None /\ gitlab_labels # Some(<<>>)
  /\ gitlab_tasks["labels"].st = "done"
  /\ gitlab_tasks["milestones"].st = "done"
  /\ gitlab_tasks["issues"].st = "done"
  /\ gitlab_issues # None /\ gitlab_issues # Some(<<>>)

(***************************************************************************)
(* C20.  Partial migration on a late gate.  When the labels and milestones *)
(* fetches succeeded and the issues fetch returned None, no issue, pull    *)
(* request, comment or close call is ever issued, and by the time main()   *)
(* has returned its failure code every label and every milestone has been  *)
(* submitted and its task has completed.  When only the merge-requests     *)
(* fetch failed, no pull request is ever submitted, and by the time main() *)
(* has returned its failure code every issue task has completed.           *)
(***************************************************************************)
\* One task per entry of the fetched list, each of them run to its end.
AllSubmittedAndDone(tasks, result) ==
  /\ Len(tasks) = Len(result[1])
  /\ Issued(tasks) = DOMAIN tasks
  /\ Completed(tasks)

LateGatePartial ==
  /\ (/\ \A kind \in FetchKinds : gitlab_tasks[kind].st = "done"
      /\ gitlab_labels # None /\ gitlab_milestones # None
      /\ gitlab_issues = None) =>
       /\ github_issues_tasks = <<>>
       /\ github_pull_requests_tasks = <<>>
       /\ pc = "returned" =>
            /\ rv = Some(IssuesFailCode)
            /\ AllSubmittedAndDone(github_labels_tasks, gitlab_labels)
            /\ AllSubmittedAndDone(github_milestones_tasks, gitlab_milestones)
  /\ (/\ \A kind \in FetchKinds : gitlab_tasks[kind].st = "done"
      /\ gitlab_labels # None /\ gitlab_milestones # None
      /\ gitlab_issues # None /\ gitlab_merge_requests = None) =>
       /\ github_pull_requests_tasks = <<>>
       /\ pc = "returned" =>
            /\ rv = Some(MergeRequestsFailCode)
            /\ AllSubmittedAndDone(github_issues_tasks, gitlab_issues)

\* The run failed at the issues gate after two labels and a milestone went
\* through, with merge requests fetched.
LateGateWitness ==
  /\ pc = "returned"
  /\ gitlab_issues = None
  /\ gitlab_merge_requests # None /\ gitlab_merge_requests # Some(<<>>)
  /\ Len(github_labels_tasks) = 2
  /\ Len(github_milestones_tasks) = 1

(***************************************************************************)
(* The payload of a milestone.  The pipeline above carries the title of a  *)
(* milestone only; here one call of github_create_milestone is followed    *)
(* statement by statement on a whole source milestone.                     *)
(***************************************************************************)
\* Bound: the length of a due date (a str, the sequence of its characters).
MaxDate == 2

MilestoneStates == {"active", "closed"}
DueDates == {None} \cup {Some(d) : d \in Strings({"1", "2"}, MaxDate, MaxDate)}

SourceMilestones ==
  {[title |-> i, description |-> d, due_date |-> due, state |-> st] :
     i \in 1..MaxMilestones, d \in Descriptions, due \in DueDates,
     st \in MilestoneStates}

\* "T23:59:00Z"
EndOfDay == <<"T", "2", "3", ":", "5", "9", ":", "0", "0", "Z">>

\* The json main() hands to github_create_milestone.
MilestoneJson(entry) ==
  [title |-> entry.title, description |-> entry.description,
   due_on |-> entry.due_date, state |-> entry.state]

\* if json["state"] == "active": json["state"] = "open"
ReplaceActive(json) ==
  IF json.state = "active" THEN [json EXCEPT !.state = "open"] ELSE json

\* Variant: a None due date stays in the payload.
ConvertDueOnKeepNone(json) ==
  IF json.due_on = None THEN json
  ELSE [json EXCEPT !.due_on = Some(@[1] \o EndOfDay)]

\* if json["due_on"] is None: del json["due_on"]
\* else: json["due_on"] += "T23:59:00Z"
ConvertDueOn(json) ==
  IF json.due_on = None
    THEN [k \in DOMAIN json \ {"due_on"} |-> json[k]]
    ELSE [json EXCEPT !.due_on = Some(@[1] \o EndOfDay)]

MilestoneFrame(entry) ==
  [fn |-> "github_create_milestone", at |-> "main", entry |-> entry,
   json |-> None, posted |-> None, log |-> {}]

MilestoneInit ==
  /\ PipelineIdle
  /\ frame \in {MilestoneFrame(entry) : entry \in SourceMilestones}

\* main(): the json of the entry is built and the task created.
BuildMilestone ==
  /\ frame.fn = "github_create_milestone" /\ frame.at = "main"
  /\ frame' = [frame EXCEPT !.at = "entry",
                            !.json = Some(MilestoneJson(frame.entry))]
  /\ PipelineUnchanged

NormalizeState ==
  /\ frame.fn = "github_create_milestone" /\ frame.at = "entry"
  /\ frame' = [frame EXCEPT !.at = "state",
                            !.json = Some(ReplaceActive(frame.json[1]))]
  /\ PipelineUnchanged

NormalizeDueOn ==
  /\ frame.fn = "github_create_milestone" /\ frame.at = "state"
  /\ frame' = [frame EXCEPT !.at = "due_on",
                            !.json = Some(ConvertDueOn(frame.json[1]))]
  /\ PipelineUnchanged

\* session.post(create_milestone_url, ..., json=json)
PostMilestone ==
  /\ frame.fn = "github_create_milestone" /\ frame.at = "due_on"
  /\ frame' = [frame EXCEPT !.at = "post", !.posted = frame.json]
  /\ PipelineUnchanged

\* The response of the POST, and what the call logs for it.
MilestoneReturns ==
  /\ frame.fn = "github_create_milestone" /\ frame.at = "post"
  /\ \E r \in Responses :
       frame' = [frame EXCEPT !.at = "done", !.log = MilestoneLog(r)]
  /\ PipelineUnchanged

MilestoneNext ==
  \/ BuildMilestone
  \/ NormalizeState
  \/ NormalizeDueOn
  \/ PostMilestone
  \/ MilestoneReturns

MilestoneSpec == MilestoneInit /\ [][MilestoneNext]_vars

(***************************************************************************)
(* C17.  The milestone payload posted is the source milestone with its     *)
(* state "active" turned into "open" and any other state as it was, with   *)
(* no due_on field when the due date is null, and with due_on equal to the *)
(* date followed by T23:59:00Z otherwise.                                  *)
(***************************************************************************)
MilestonePayload ==
  (frame.fn = "github_create_milestone" /\ frame.posted # None) =>
    LET payload == frame.posted[1]
        entry == frame.entry
    IN  /\ payload.title = entry.title
        /\ payload.state = "open" <=> entry.state = "active"
        /\ entry.state # "active" => payload.state = entry.state
        /\ entry.due_date = None <=> "due_on" \notin DOMAIN payload
        /\ entry.due_date # None =>
             /\ payload.due_on # None
             /\ Len(payload.due_on[1]) = MaxDate + 10
             /\ SubSeq(payload.due_on[1], 1, MaxDate) = entry.due_date[1]
             /\ SubSeq(payload.due_on[1], MaxDate + 1, MaxDate + 10) =
                  <<"T", "2", "3", ":", "5", "9", ":", "0", "0", "Z">>

\* An active milestone with a due date was posted.
MilestonePayloadWitness ==
  /\ frame.fn = "github_create_milestone"
  /\ frame.posted # None
  /\ frame.entry.state = "active"
  /\ frame.entry.due_date # None

\* A closed milestone without a due date was posted.
MilestoneNullDueWitness ==
  /\ frame.fn = "github_create_milestone"
  /\ frame.posted # None
  /\ frame.entry.state = "closed"
  /\ frame.entry.due_date = None

(***************************************************************************)
(* Every request eventually returns, and the event loop runs whatever is   *)
(* ready: a step that stays possible is eventually taken.                  *)
(***************************************************************************)
FairSpec == Spec /\ WF_vars(Next)

(***************************************************************************)
(* C18.  Termination: when every request eventually returns, the run ends, *)
(* and it ends in Done or in Failed, that is by a return of main(): a run  *)
(* that has ended has not ended otherwise.                                 *)
(***************************************************************************)
EndsDoneOrFailed == exited => pc = "returned"

(***************************************************************************)
(* C21.  No orphaned work: once main() has returned, with None or with a   *)
(* failure code, every task of every fan-out has run to its end, comment   *)
(* and close calls included; and a fan-out holds tasks only if the fetches *)
(* were gathered and the fetch of its own phase returned a list.           *)
(***************************************************************************)
NoOrphanedWork ==
  /\ pc = "returned" =>
       /\ \A i \in DOMAIN github_labels_tasks :
            github_labels_tasks[i].st = "done"
       /\ \A i \in DOMAIN github_milestones_tasks :
            github_milestones_tasks[i].st = "done"
       /\ \A p \in Parents : ParentOf(p).st = "done"
  /\ github_labels_tasks # <<>> =>
       (gitlab_tasks["labels"].st = "done" /\ gitlab_labels # None)
  /\ github_milestones_tasks # <<>> =>
       (gitlab_tasks["milestones"].st = "done" /\ gitlab_milestones # None)
  /\ github_issues_tasks # <<>> =>
       (gitlab_tasks["issues"].st = "done" /\ gitlab_issues # None)
  /\ github_pull_requests_tasks # <<>> =>
       (gitlab_tasks["merge_requests"].st = "done"
          /\ gitlab_merge_requests # None)

\* main() returned None after tasks of all four phases ran, an issue's task
\* with a comment and a close call and a pull request's task with a comment.
NoOrphanedWorkWitness ==
  /\ pc = "returned" /\ rv = None
  /\ github_labels_tasks # <<>>
  /\ github_milestones_tasks # <<>>
  /\ \E i \in DOMAIN github_issues_tasks :
       Len(github_issues_tasks[i].calls) = 2
  /\ \E i \in DOMAIN github_pull_requests_tasks :
       Len(github_pull_requests_tasks[i].calls) = 1

====
